---------------------------- MODULE Spec2Model ----------------------------
(***************************************************************************)
(* Model of the BHMM hidden Markov model class (bhmm/hmm_class.py) and of  *)
(* the discrete initial-model estimator (bhmm/init/discrete.py).           *)
(*                                                                         *)
(* Floating point values are modelled as exact rationals [n, d] in lowest  *)
(* terms, with d = 0 for the IEEE values nan (n = 0) and +-inf (n = +-1).  *)
(* All matrices of the model have entries that are multiples of 1/10, so   *)
(* two different values differ by far more than the tolerances of          *)
(* np.allclose (rtol 1e-5, atol 1e-8): "numerically equal" is modelled by  *)
(* equality of the rationals.                                              *)
(***************************************************************************)
EXTENDS Integers, Sequences, FiniteSets, TLC

(***************************************************************************)
(* Bounds of the model.                                                    *)
(***************************************************************************)
\* longest hidden-state trajectory assigned in Spec
MaxTrajLen == 2
\* largest number of hidden-state trajectories assigned in Spec
MaxTraj == 1
\* longest hidden-state trajectory assigned in SpecCount
CountMaxTrajLen == 3
\* largest number of hidden-state trajectories assigned in SpecCount
CountMaxTraj == 2
\* largest lag time passed to the constructor
MaxLag == 1
\* longest hidden-state trajectory synthesized
MaxGenLen == 2
\* longest observation trajectory synthesized
MaxObsLen == 1
\* largest number of observation trajectories synthesized by one call
MaxNTraj == 1

(***************************************************************************)
(* Floating point numbers as rationals.                                    *)
(***************************************************************************)
Abs(x) == IF x < 0 THEN -x ELSE x

RECURSIVE GCD(_, _)
GCD(a, b) == IF b = 0 THEN a ELSE GCD(b, a % b)

\* the float n/d, d > 0, in lowest terms
Q(n, d) == LET g == GCD(Abs(n), d) IN [n |-> n \div g, d |-> d \div g]

Zero == Q(0, 1)
One == Q(1, 1)
NaN == [n |-> 0, d |-> 0]
Inf(s) == [n |-> s, d |-> 0]

IsFinite(x) == x.d # 0
IsNaN(x) == x.d = 0 /\ x.n = 0

\* x + y, x * y on floats (only finite operands occur in sums and products)
FAdd(x, y) == IF IsFinite(x) /\ IsFinite(y) THEN Q(x.n * y.d + y.n * x.d, x.d * y.d) ELSE NaN
FMul(x, y) == IF IsFinite(x) /\ IsFinite(y) THEN Q(x.n * y.n, x.d * y.d) ELSE NaN

\* x / y as numpy divides floats: 0/0 is nan, x/0 is +-inf, no exception
FDiv(x, y) ==
    IF ~(IsFinite(x) /\ IsFinite(y)) THEN NaN
    ELSE IF y.n = 0 THEN (IF x.n = 0 THEN NaN ELSE Inf(IF x.n > 0 THEN 1 ELSE -1))
    ELSE IF y.n > 0 THEN Q(x.n * y.d, x.d * y.n)
    ELSE Q(-(x.n * y.d), x.d * (-y.n))

\* x >= y on floats: every comparison with nan is False
FGe(x, y) ==
    IF IsNaN(x) \/ IsNaN(y) THEN FALSE
    ELSE IF IsFinite(x) /\ IsFinite(y) THEN x.n * y.d >= y.n * x.d
    ELSE IF ~IsFinite(x) /\ ~IsFinite(y) THEN x.n >= y.n
    ELSE IF ~IsFinite(x) THEN x.n > 0
    ELSE y.n < 0

\* np.isclose(x, y) for the values of the model: equal and not nan
FClose(x, y) == ~IsNaN(x) /\ ~IsNaN(y) /\ x = y

(***************************************************************************)
(* Vectors and matrices (1-indexed sequences; state i of the code is       *)
(* index i + 1).                                                           *)
(***************************************************************************)
RECURSIVE SumSeq(_)
SumSeq(v) == IF v = <<>> THEN Zero ELSE FAdd(v[1], SumSeq(Tail(v)))

\* a vector / matrix row given in tenths
Tenths(row) == [i \in 1..Len(row) |-> Q(row[i], 10)]
Mat(rows) == [i \in 1..Len(rows) |-> Tenths(rows[i])]

\* np.sum(v), np.all(v >= 0), v / s, np.allclose(u, v)
NpSum(v) == SumSeq(v)
AllNonNegative(v) == \A i \in 1..Len(v) : FGe(v[i], Zero)
VecDiv(v, s) == [i \in 1..Len(v) |-> FDiv(v[i], s)]
AllClose(u, v) == Len(u) = Len(v) /\ \A i \in 1..Len(u) : FClose(u[i], v[i])

\* the row vector p * T
VecMat(p, T) == [j \in 1..Len(T[1]) |-> SumSeq([i \in 1..Len(T) |-> FMul(p[i], T[i][j])])]

(***************************************************************************)
(* Python values passed to the constructor: a value carries its type, so   *)
(* that a positional argument bound to the wrong parameter is visible.     *)
(***************************************************************************)
PyInt(k) == [kind |-> "int", v |-> k]
PyArray(m) == [kind |-> "ndarray", v |-> m]
PyNone == [kind |-> "None", v |-> <<>>]
DiscreteOutputModel(B) == [kind |-> "DiscreteOutputModel", v |-> B]

(***************************************************************************)
(* pyemma.msm.analysis, as used by the constructor.                        *)
(***************************************************************************)
\* is_transition_matrix without the test of the signs of the entries
is_transition_matrix_RowSumsOnly(T) ==
    /\ \A i \in 1..Len(T) : Len(T[i]) = Len(T)
    /\ \A i \in 1..Len(T) : FClose(NpSum(T[i]), One)

\* msmana.is_transition_matrix(T): square, entries >= 0, every row sums to 1
is_transition_matrix(T) ==
    /\ \A i \in 1..Len(T) : Len(T[i]) = Len(T)
    /\ \A i \in 1..Len(T) : AllNonNegative(T[i])
    /\ \A i \in 1..Len(T) : FClose(NpSum(T[i]), One)

\* unnormalized stationary weights of a chain with 2 or 3 states (sum over
\* the spanning trees directed to the state)
StationaryWeights(T) ==
    IF Len(T) = 2 THEN << T[2][1], T[1][2] >>
    ELSE << FAdd(FAdd(FMul(T[2][1], T[3][1]), FMul(T[2][1], T[3][2])), FMul(T[2][3], T[3][1])),
            FAdd(FAdd(FMul(T[1][2], T[3][2]), FMul(T[1][2], T[3][1])), FMul(T[1][3], T[3][2])),
            FAdd(FAdd(FMul(T[1][3], T[2][3]), FMul(T[1][3], T[2][1])), FMul(T[1][2], T[2][3])) >>

\* msmana.stationary_distribution(T), T a transition matrix with one closed class
stationary_distribution(T) == VecDiv(StationaryWeights(T), NpSum(StationaryWeights(T)))

\* msmana.is_reversible(T): np.allclose(pi[:,None] * T, (pi[:,None] * T).T)
is_reversible(T) ==
    LET mu == stationary_distribution(T)
    IN \A i \in 1..Len(T) : \A j \in 1..Len(T) :
          FClose(FMul(mu[i], T[i][j]), FMul(mu[j], T[j][i]))

(***************************************************************************)
(* msmana.rdl_decomposition.  An eigenvalue is a + s * sqrt(r) with a, r   *)
(* rational and s = +-1: it is complex, with imaginary part s * sqrt(-r),  *)
(* when r < 0.  An eigenvector is described by its eigenvalue and its      *)
(* normalization; it has non-real components exactly when its eigenvalue   *)
(* is complex and its real part has not been taken.                        *)
(***************************************************************************)
Eigenvalue(a, r, sgn) == [a |-> a, r |-> r, s |-> IF r = Zero THEN 1 ELSE sgn]
IsComplex(ev) == ev.r.n < 0

FNeg(x) == FMul(Q(-1, 1), x)
Det2(X) == FAdd(FMul(X[1][1], X[2][2]), FNeg(FMul(X[1][2], X[2][1])))
Trace(T) == SumSeq([i \in 1..Len(T) |-> T[i][i]])
Det3(T) ==
    FAdd(FAdd(FMul(T[1][1], Det2(<< <<T[2][2], T[2][3]>>, <<T[3][2], T[3][3]>> >>)),
              FNeg(FMul(T[1][2], Det2(<< <<T[2][1], T[2][3]>>, <<T[3][1], T[3][3]>> >>)))),
         FMul(T[1][3], Det2(<< <<T[2][1], T[2][2]>>, <<T[3][1], T[3][2]>> >>)))

\* the eigenvalues of a stochastic matrix with 2 or 3 states, by descending
\* norm: 1, then the roots of x^2 - (tr - 1) x + det
\* the roots a +- sqrt(r) after the eigenvalue 1
Spectrum(a, r) ==
    << Eigenvalue(One, Zero, 1),
       Eigenvalue(a, r, IF a.n >= 0 THEN 1 ELSE -1),
       Eigenvalue(a, r, IF a.n >= 0 THEN -1 ELSE 1) >>
Roots(a, det) == Spectrum(a, FAdd(FMul(a, a), FNeg(det)))
Eigenvalues(T) ==
    IF Len(T) = 2 THEN << Eigenvalue(One, Zero, 1), Eigenvalue(FAdd(Trace(T), Q(-1, 1)), Zero, 1) >>
    ELSE Roots(FMul(Q(1, 2), FAdd(Trace(T), Q(-1, 1))), Det3(T))

\* the eigenvectors that belong to the eigenvalues D
Eigenvectors(D, norm) ==
    [k \in 1..Len(D) |-> [eigenvalue |-> D[k], norm |-> norm, real_part |-> FALSE]]
Eigenpairs(D, norm) == [R |-> Eigenvectors(D, norm), D |-> D, L |-> Eigenvectors(D, norm)]

\* R, D, L = msmana.rdl_decomposition(T, norm=norm)
rdl_decomposition(T, norm) == Eigenpairs(Eigenvalues(T), norm)

\* X.real of a matrix of eigenvectors and of the eigenvalues
RealVectors(X) == [k \in 1..Len(X) |-> [X[k] EXCEPT !.real_part = TRUE]]
RealValues(D) == [k \in 1..Len(D) |-> IF IsComplex(D[k]) THEN Eigenvalue(D[k].a, Zero, 1) ELSE D[k]]

\* lines 101-108: self._R, self._D, self._L
\* lines 103-105: .real of each of R, D, L
RealParts(rdl) == [R |-> RealVectors(rdl.R), D |-> RealValues(rdl.D), L |-> RealVectors(rdl.L)]

Decomposition(T, reversible) ==
    IF reversible
    THEN RealParts(rdl_decomposition(T, "reversible"))
    ELSE rdl_decomposition(T, "standard")

(***************************************************************************)
(* HMM.__init__                                                            *)
(***************************************************************************)
NoHMM == [exists |-> FALSE]
NoTrajectories == [assigned |-> FALSE, list |-> <<>>]
Raise(e) == [raised |-> e, self |-> NoHMM]

\* line 78: the renormalized copy of a supplied Pi
NormalizedPi(Pi) == VecDiv(Pi.v, NpSum(Pi.v))

\* line 77: the assertion on a supplied Pi
PiCheck(Pi) == Pi.kind # "None" => AllNonNegative(Pi.v)

\* the assertion of line 86 comparing Pi as supplied, before its renormalization
StationaryCheck_Unnormalized(T, Pi, stationary) ==
    (stationary /\ Pi.kind # "None") => AllClose(Pi.v, stationary_distribution(T))

\* line 86: the assertion of a stationary HMM with a supplied Pi
StationaryCheck(T, Pi, stationary) ==
    (stationary /\ Pi.kind # "None") => AllClose(NormalizedPi(Pi), stationary_distribution(T))

\* self._Pi with a uniform default for a free HMM without a supplied Pi
InitialPi_UniformDefault(T, Pi, stationary) ==
    IF stationary
    THEN IF Pi.kind = "None" THEN stationary_distribution(T) ELSE NormalizedPi(Pi)
    ELSE IF Pi.kind = "None" THEN [i \in 1..Len(T) |-> Q(1, Len(T))] ELSE NormalizedPi(Pi)

\* lines 81-93: the value stored as self._Pi
InitialPi(T, Pi, stationary) ==
    IF stationary
    THEN IF Pi.kind = "None" THEN stationary_distribution(T) ELSE NormalizedPi(Pi)
    ELSE IF Pi.kind = "None" THEN stationary_distribution(T) ELSE NormalizedPi(Pi)

\* the assertion of line 98 made whatever the reversible flag
ReversibleCheck_Unconditional(T, reversible) == is_reversible(T)

\* lines 97-98: the assertion of a reversible HMM
ReversibleCheck(T, reversible) == reversible => is_reversible(T)

\* the fields of a constructed HMM
Instance(Tij, output_model, lag, Pi, stationary, reversible, rdl) ==
    [exists |-> TRUE,
     Tij |-> Tij,
     nstates |-> Len(Tij),
     lag |-> lag,
     output_model |-> output_model,
     hidden_state_trajectories |-> NoTrajectories,
     Pi |-> Pi,
     stationary |-> stationary,
     reversible |-> reversible,
     R |-> rdl.R,
     L |-> rdl.L,
     eigenvalues |-> rdl.D]

HMMInit(Tij, output_model, lag, Pi, stationary, reversible) ==
    IF Tij.kind # "ndarray"
    THEN \* np.array(Tij) is a 0-d array: it has no shape[0] (line 67)
         Raise("IndexError")
    ELSE IF ~is_transition_matrix(Tij.v)
    THEN Raise("Given transition matrix is not a stochastic matrix")
    ELSE IF ~PiCheck(Pi)
    THEN Raise("Given initial distribution contains negative elements.")
    ELSE IF ~StationaryCheck(Tij.v, Pi, stationary)
    THEN Raise("Stationary HMM requested, but given distribution is not the stationary distribution of the given transition matrix.")
    ELSE IF ~ReversibleCheck(Tij.v, reversible)
    THEN Raise("Reversible HMM requested, but given transition matrix is not reversible.")
    ELSE [raised |-> "",
          self |-> Instance(Tij.v, output_model, lag, InitialPi(Tij.v, Pi, stationary),
                            stationary, reversible, Decomposition(Tij.v, reversible))]

\* line 78: numpy emits a RuntimeWarning (invalid value encountered in
\* divide) when a supplied Pi that passed line 77 sums to zero
DivisionWarnings(Tij, Pi) ==
    IF /\ Tij.kind = "ndarray" /\ is_transition_matrix(Tij.v)
       /\ Pi.kind # "None" /\ PiCheck(Pi) /\ NpSum(Pi.v) = Zero
    THEN 1 ELSE 0

(***************************************************************************)
(* Properties and methods of a constructed HMM.                            *)
(***************************************************************************)
Return(x) == [raised |-> "", value |-> x]
Fail(e) == [raised |-> e, value |-> <<>>]

initial_distribution(self) == Return(self.Pi)

\* stationary_distribution without the test of the stationary flag
stationary_distribution_property_Unguarded(self) == Return(self.Pi)

stationary_distribution_property(self) ==
    IF self.stationary THEN Return(self.Pi) ELSE Fail("ValueError: HMM is not stationary")

ZeroMatrix(n) == [i \in 1..n |-> [j \in 1..n |-> 0]]

\* the loop of count_matrix with the indices exchanged: C[S[t+1],S[t]] += 1
RECURSIVE CountTrajectory_Transposed(_, _, _)
CountTrajectory_Transposed(C, S, t) ==
    IF t > Len(S) - 1 THEN C
    ELSE CountTrajectory_Transposed([C EXCEPT ![S[t + 1] + 1][S[t] + 1] = @ + 1], S, t + 1)

\* for t in range(len(S)-1): C[S[t],S[t+1]] += 1
RECURSIVE CountTrajectory(_, _, _)
CountTrajectory(C, S, t) ==
    IF t > Len(S) - 1 THEN C
    ELSE CountTrajectory([C EXCEPT ![S[t] + 1][S[t + 1] + 1] = @ + 1], S, t + 1)

RECURSIVE Concatenation(_)
Concatenation(trajs) == IF trajs = <<>> THEN <<>> ELSE Head(trajs) \o Concatenation(Tail(trajs))

\* the loops of count_matrix run over the concatenation of the trajectories
CountTrajectories_Concatenated(C, trajs) == CountTrajectory(C, Concatenation(trajs), 1)

\* count_matrix with C = np.zeros(...) inside the loop over the trajectories:
\* only the last trajectory is counted
CountTrajectories_LastOnly(C, trajs) ==
    IF trajs = <<>> THEN C ELSE CountTrajectory(C, trajs[Len(trajs)], 1)

\* for S in self.hidden_state_trajectories: ...
RECURSIVE CountTrajectories(_, _)
CountTrajectories(C, trajs) ==
    IF trajs = <<>> THEN C
    ELSE CountTrajectories(CountTrajectory(C, Head(trajs), 1), Tail(trajs))

\* count_matrix testing "not self.hidden_state_trajectories", as
\* collect_observations_in_state does: an empty list counts as absent
count_matrix_Falsy(self) ==
    IF ~self.hidden_state_trajectories.assigned \/ self.hidden_state_trajectories.list = <<>>
    THEN Fail("RuntimeError: HMM model does not have a hidden state trajectory.")
    ELSE Return(CountTrajectories(ZeroMatrix(self.nstates), self.hidden_state_trajectories.list))

count_matrix(self) ==
    IF ~self.hidden_state_trajectories.assigned
    THEN Fail("RuntimeError: HMM model does not have a hidden state trajectory.")
    ELSE Return(CountTrajectories(ZeroMatrix(self.nstates), self.hidden_state_trajectories.list))

\* the read-only properties of lines 141-201 (eigenvectors_right is a method)
PropertyNames ==
    { "is_reversible", "is_stationary", "nstates", "transition_matrix",
      "eigenvalues", "eigenvectors_left", "eigenvectors_right" }

ReadProperty(self, name) ==
    CASE name = "is_reversible" -> Return(self.reversible)
      [] name = "is_stationary" -> Return(self.stationary)
      [] name = "nstates" -> Return(self.nstates)
      [] name = "transition_matrix" -> Return(self.Tij)
      [] name = "eigenvalues" -> Return(self.eigenvalues)
      [] name = "eigenvectors_left" -> Return(self.L)
      [] name = "eigenvectors_right" -> Return(self.R)

\* lines 214-217: ts[1:] of the timescales of the eigenvalues; the timescale
\* -tau / ln|lambda| is given by tau and lambda
timescales(self) ==
    Return([k \in 1..(self.nstates - 1) |-> [tau |-> self.lag, eigenvalue |-> self.eigenvalues[k + 1]]])

Min(a, b) == IF a <= b THEN a ELSE b

\* np.where(s_t == state_index)[0], as positions 1..len(s_t)
IndicesOf(s_t, state_index) == { t \in 1..Len(s_t) : s_t[t] = state_index }

\* the elements of o_t at the increasing positions of indices
RECURSIVE Selected(_, _, _)
Selected(o_t, indices, t) ==
    IF t > Len(o_t) THEN <<>>
    ELSE (IF t \in indices THEN << o_t[t] >> ELSE <<>>) \o Selected(o_t, indices, t + 1)

\* lines 341-343: the observations collected from the pairs k.. of the zip
RECURSIVE CollectFrom(_, _, _, _)
CollectFrom(trajs, observations, state_index, k) ==
    IF k > Min(Len(trajs), Len(observations)) THEN <<>>
    ELSE Selected(observations[k], IndicesOf(trajs[k], state_index), 1)
            \o CollectFrom(trajs, observations, state_index, k + 1)

collect_observations_in_state(self, observations, state_index) ==
    IF ~self.hidden_state_trajectories.assigned \/ self.hidden_state_trajectories.list = <<>>
    THEN Fail("RuntimeError: HMM model does not have a hidden state trajectory.")
    ELSE IF observations = <<>>
    THEN \* line 339: observations[0]
         Fail("IndexError: list index out of range")
    ELSE IF \E k \in 1..Min(Len(self.hidden_state_trajectories.list), Len(observations)) :
              \E t \in IndicesOf(self.hidden_state_trajectories.list[k], state_index) :
                 t > Len(observations[k])
    THEN \* line 343: o_t[indices] with an index beyond o_t
         Fail("IndexError: index is out of bounds")
    ELSE Return(CollectFrom(self.hidden_state_trajectories.list, observations, state_index, 1))

(***************************************************************************)
(* Trajectory synthesis.  A method that draws random numbers is modelled   *)
(* by the set of the results it can produce.                               *)
(***************************************************************************)
\* np.random.choice(range(n), size=1, p=p) raises ValueError unless p has n
\* entries, none nan or negative, that sum to 1
ChoiceValid(n, p) ==
    /\ Len(p) = n
    /\ \A i \in 1..Len(p) : FGe(p[i], Zero)
    /\ FClose(NpSum(p), One)

\* the states np.random.choice(range(n), size=1, p=p) can return
ChoiceOutcomes(p) == { i - 1 : i \in { k \in 1..Len(p) : p[k].n > 0 } }

\* lines 383-384: k more states, each drawn from the row of the state before
RECURSIVE ExtendTrajectories(_, _, _)
ExtendTrajectories(T, prefixes, k) ==
    IF k <= 0 THEN prefixes
    ELSE ExtendTrajectories(T,
             UNION { { Append(S, x) : x \in ChoiceOutcomes(T[S[Len(S)] + 1]) } : S \in prefixes },
             k - 1)

\* the distributions the draws of a returned trajectory were taken from
DrawsOf(self, states, source, p0) ==
    [t \in 1..Len(states) |->
        IF t = 1 THEN [source |-> source, p |-> p0]
        ELSE [source |-> "Tij", p |-> self.Tij[states[t - 1] + 1]]]

\* the first state drawn from self._Pi whatever initial_Pi is
FirstDistribution_IgnoresOverride(self, initial_Pi) == self.Pi

\* lines 377-380: the distribution of the first state and where it comes from
FirstDistribution(self, initial_Pi) == IF initial_Pi.kind # "None" THEN initial_Pi.v ELSE self.Pi
FirstSource(initial_Pi) == IF initial_Pi.kind # "None" THEN "initial_Pi" ELSE "_Pi"

\* generate_synthetic_state_trajectory drawing the first state only "if length > 0":
\* an empty trajectory is returned for length 0
generate_synthetic_state_trajectory_EmptyForZero(self, length, initial_Pi) ==
    IF length < 0
    THEN { Fail("ValueError: negative dimensions are not allowed") }
    ELSE IF length = 0
    THEN { Return([states |-> <<>>, draws |-> <<>>]) }
    ELSE IF ~ChoiceValid(self.nstates, FirstDistribution(self, initial_Pi))
    THEN { Fail("ValueError: probabilities are not a distribution") }
    ELSE { Return([states |-> S,
                   draws |-> DrawsOf(self, S, FirstSource(initial_Pi), FirstDistribution(self, initial_Pi))]) :
             S \in ExtendTrajectories(self.Tij,
                       { <<x>> : x \in ChoiceOutcomes(FirstDistribution(self, initial_Pi)) },
                       length - 1) }

generate_synthetic_state_trajectory(self, length, initial_Pi) ==
    IF length < 0
    THEN \* line 374: np.zeros([length])
         { Fail("ValueError: negative dimensions are not allowed") }
    ELSE IF ~ChoiceValid(self.nstates, FirstDistribution(self, initial_Pi))
    THEN \* lines 378, 380: np.random.choice rejects p
         { Fail("ValueError: probabilities are not a distribution") }
    ELSE IF length = 0
    THEN \* lines 378, 380: states[0] of an empty array
         { Fail("IndexError: index 0 is out of bounds for axis 0 with size 0") }
    ELSE { Return([states |-> S,
                   draws |-> DrawsOf(self, S, FirstSource(initial_Pi), FirstDistribution(self, initial_Pi))]) :
             S \in ExtendTrajectories(self.Tij,
                       { <<x>> : x \in ChoiceOutcomes(FirstDistribution(self, initial_Pi)) },
                       length - 1) }

\* output_model.generate_observation_trajectory(s_t): one symbol per state,
\* drawn from the state's row of the output matrix
ObservationTrajectories(output_model, s_t) ==
    { o_t \in [1..Len(s_t) -> 0..(Len(output_model.v[1]) - 1)] :
        \A t \in 1..Len(s_t) : output_model.v[s_t[t] + 1][o_t[t] + 1].n > 0 }

\* output_model.generate_observation_from_state(state)
generate_synthetic_observation(self, state) ==
    IF state \notin 0..(self.nstates - 1)
    THEN { Fail("IndexError: state is not a state of the output model") }
    ELSE { Return(o) : o \in ChoiceOutcomes(self.output_model.v[state + 1]) }

generate_synthetic_observation_trajectory(self, length, initial_Pi) ==
    UNION { IF r.raised # "" THEN { r }
            ELSE { Return([o_t |-> o_t, s_t |-> r.value.states]) :
                     o_t \in ObservationTrajectories(self.output_model, r.value.states) } :
            r \in generate_synthetic_state_trajectory(self, length, initial_Pi) }

\* lines 493-500: the lists O and S after k rounds of the loop, or the
\* exception of the first round that raises
RECURSIVE ObservationRounds(_, _, _, _)
ObservationRounds(self, k, length, initial_Pi) ==
    IF k <= 0 THEN { Return([O |-> <<>>, S |-> <<>>]) }
    ELSE UNION { IF before.raised # "" THEN { before }
                 ELSE { IF r.raised # "" THEN r
                        ELSE Return([O |-> Append(before.value.O, r.value.o_t),
                                     S |-> Append(before.value.S, r.value.s_t)]) :
                          r \in generate_synthetic_observation_trajectory(self, length, initial_Pi) } :
                 before \in ObservationRounds(self, k - 1, length, initial_Pi) }

generate_synthetic_observation_trajectories(self, ntrajectories, length, initial_Pi) ==
    ObservationRounds(self, ntrajectories, length, initial_Pi)

(***************************************************************************)
(* initial_model_discrete.  The fine Markov model and its PCCA come from   *)
(* pyemma; a value fm holds what the initializer reads from them:          *)
(*   fm.nstates                    MSM.nstates (the active symbols)        *)
(*   fm.nstates_full               MSM.nstates_full (all observed symbols) *)
(*   fm.active_set                 MSM.active_set (symbol indices)         *)
(*   fm.metastable_distributions   MSM.metastable_distributions            *)
(*   fm.transition_matrix          MSM.transition_matrix                   *)
(*   fm.memberships                pcca.memberships                        *)
(*   fm.coarse_pi                  pcca.coarse_grained_stationary_probability *)
(***************************************************************************)
Transpose(M) == [j \in 1..Len(M[1]) |-> [i \in 1..Len(M) |-> M[i][j]]]
MatMul(X, Y) ==
    [i \in 1..Len(X) |-> [j \in 1..Len(Y[1]) |->
        SumSeq([k \in 1..Len(Y) |-> FMul(X[i][k], Y[k][j])])]]
\* np.linalg.inv of a 2 x 2 matrix with a non-zero determinant
Inv2(X) ==
    << << FDiv(X[2][2], Det2(X)), FDiv(FNeg(X[1][2]), Det2(X)) >>,
       << FDiv(FNeg(X[2][1]), Det2(X)), FDiv(X[1][1], Det2(X)) >> >>
FMax(x, y) == IF FGe(x, y) THEN x ELSE y
\* X / X.sum(axis=1)[:, None]
RowNormalize(X) == [i \in 1..Len(X) |-> VecDiv(X[i], NpSum(X[i]))]

\* line 56: eps = 0.01 * (1.0/MSM.nstates)
Eps(fm) == FMul(Q(1, 100), FDiv(One, Q(fm.nstates, 1)))

\* line 59 raises IndexError when an active symbol is no column of B
ActiveSetFits(fm) == \A k \in 1..Len(fm.active_set) : fm.active_set[k] < fm.nstates

\* lines 57-59: B with B[:,MSM.active_set] = B_conn
ExpandedB(nstates, fm) ==
    [i \in 1..nstates |-> [c \in 1..fm.nstates |->
        IF \E k \in 1..Len(fm.active_set) : fm.active_set[k] = c - 1
        THEN fm.metastable_distributions[i][CHOOSE k \in 1..Len(fm.active_set) : fm.active_set[k] = c - 1]
        ELSE Eps(fm)]]

\* lines 56-61: the emission matrix B
EmissionMatrix(nstates, fm) == RowNormalize(ExpandedB(nstates, fm))

\* lines 64-67: P_coarse = (M^T M)^-1 M^T T M
CoarseProjection(fm) ==
    MatMul(Inv2(MatMul(Transpose(fm.memberships), fm.memberships)),
           MatMul(MatMul(Transpose(fm.memberships), fm.transition_matrix), fm.memberships))

\* line 70: X = diag(pi_coarse) P_coarse
WeightedProjection(fm) ==
    [i \in 1..Len(fm.coarse_pi) |-> [j \in 1..Len(fm.coarse_pi) |->
        FMul(fm.coarse_pi[i], CoarseProjection(fm)[i][j])]]

\* X without the np.maximum(X, eps) of line 72
FlooredX_Unfloored(fm) == WeightedProjection(fm)

\* lines 70-72: X = np.maximum(diag(pi_coarse) P_coarse, eps)
FlooredX(fm) ==
    [i \in 1..Len(fm.coarse_pi) |-> [j \in 1..Len(fm.coarse_pi) |->
        FMax(FMul(fm.coarse_pi[i], CoarseProjection(fm)[i][j]), Eps(fm))]]

\* line 74: the coarse-grained transition matrix A
CoarseTransitionMatrix(fm) == RowNormalize(FlooredX(fm))

\* line 46: msm.estimate_markov_model(observations, lag, reversible=True,
\* connectivity='largest'), whatever the reversible argument was
EstimationRequest(lag) == [lag |-> lag, reversible |-> TRUE, connectivity |-> "largest"]

\* line 87: model = HMM(nstates, A, output_model): nstates is bound to Tij,
\* A to output_model, the output model to lag
InitializerHMM(nstates, fm) ==
    HMMInit(PyInt(nstates), PyArray(CoarseTransitionMatrix(fm)),
            DiscreteOutputModel(EmissionMatrix(nstates, fm)), PyNone, TRUE, TRUE)

\* initial_model_discrete(observations, nstates, lag, reversible): what it
\* raises, the model it returns, the warnings it emits and what it asks
\* pyemma to estimate; estimated is FALSE when the estimation or the PCCA of
\* pyemma raises
InitializerOutcome(r, lag, reversible) ==
    [raised |-> r.raised,
     self |-> r.self,
     warnings |-> IF ~reversible THEN 1 ELSE 0,
     reversible |-> IF ~reversible THEN TRUE ELSE reversible,
     request |-> EstimationRequest(lag)]

initial_model_discrete(nstates, lag, reversible, estimated, fm) ==
    InitializerOutcome(IF ~estimated THEN Raise("EstimationFailure")
                       ELSE IF ~ActiveSetFits(fm) THEN Raise("IndexError")
                       ELSE InitializerHMM(nstates, fm),
                       lag, reversible)

(***************************************************************************)
(* Inputs.                                                                 *)
(***************************************************************************)
\* rows of 2-state matrices, in tenths: two stochastic rows, a row with a
\* negative entry that sums to 1, a row that does not sum to 1
Rows2 == { <<8, 2>>, <<5, 5>>, <<12, -2>>, <<5, 4>> }
Matrices2 == { Mat(<<r1, r2>>) : r1 \in Rows2, r2 \in Rows2 }

\* 3-state matrices: every mix of the rows of a cyclic (non-reversible) chain
\* and of a birth-death (reversible) chain, and one with a negative entry
Matrices3 ==
    { Mat(<<r1, r2, r3>>) : r1 \in { <<0, 8, 2>>, <<5, 5, 0>> },
                            r2 \in { <<2, 0, 8>>, <<2, 6, 2>> },
                            r3 \in { <<8, 2, 0>>, <<0, 5, 5>> } }
    \cup { Mat(<< <<5, 5, 0>>, <<2, 6, 2>>, <<-1, 6, 5>> >>) }

Matrices == Matrices2 \cup Matrices3

\* the Pi argument: None, or a vector of the size of the matrix
PiArguments(n) ==
    {PyNone} \cup
    { PyArray(Tenths(v)) :
        v \in IF n = 2 THEN { <<5, 5>>, <<5, 2>>, <<0, 0>>, <<-2, 12>> }
              ELSE { <<1, 1, 1>>, <<2, 5, 2>>, <<0, 0, 0>>, <<-1, 5, 6>> } }

\* an output model for n hidden states over 3 symbols
OutputModelFor(n) ==
    DiscreteOutputModel(Mat([i \in 1..n |-> IF i = 1 THEN <<5, 1, 4>> ELSE <<2, 3, 5>>]))

SeqsUpTo(S, k) == UNION { [1..m -> S] : m \in 0..k }
\* lists of at most maxtraj trajectories of at most maxlen states of 0..n-1
TrajLists(n, maxlen, maxtraj) == SeqsUpTo(SeqsUpTo(0..(n - 1), maxlen), maxtraj)

\* what pyemma reports of a fine model with transition matrix T over the
\* active symbols and PCCA memberships M
FineModel(T, M, active_set, nstates_full) ==
    LET pi == stationary_distribution(T)
        cpi == VecMat(pi, M)
    IN [nstates |-> Len(T),
        nstates_full |-> nstates_full,
        active_set |-> active_set,
        transition_matrix |-> T,
        memberships |-> M,
        coarse_pi |-> cpi,
        metastable_distributions |->
            [i \in 1..Len(cpi) |-> [k \in 1..Len(T) |-> FDiv(FMul(pi[k], M[k][i]), cpi[i])]]]

\* the connected symbols of the observations: all three observed symbols,
\* symbols 0..2 of four (3 is left out), symbols 1..3 of four (0 is left out)
ActiveSets ==
    { [active_set |-> <<0, 1, 2>>, nstates_full |-> 3],
      [active_set |-> <<0, 1, 2>>, nstates_full |-> 4],
      [active_set |-> <<1, 2, 3>>, nstates_full |-> 4] }

FineModels ==
    { FineModel(T, M, a.active_set, a.nstates_full) :
        T \in { Mat(<< <<5, 5, 0>>, <<2, 6, 2>>, <<0, 5, 5>> >>),
                Mat(<< <<0, 10, 0>>, <<5, 0, 5>>, <<0, 10, 0>> >>),
                Mat(<< <<9, 1, 0>>, <<2, 1, 7>>, <<0, 1, 9>> >>) },
        M \in { Mat(<< <<10, 0>>, <<5, 5>>, <<0, 10>> >>),
                Mat(<< <<10, 0>>, <<10, 0>>, <<0, 10>> >>),
                Mat(<< <<10, 0>>, <<0, 10>>, <<10, 0>> >>) },
        a \in ActiveSets }

\* the initial_Pi argument of the synthesis: None, a distribution with a
\* zero entry, a vector that is no distribution
InitialPiOverrides(n) ==
    {PyNone} \cup
    { PyArray(Tenths(v)) :
        v \in IF n = 2 THEN { <<10, 0>>, <<5, 2>> } ELSE { <<0, 10, 0>>, <<1, 1, 1>> } }

\* the HMMs whose operations SpecGen explores: the example of the class
\* documentation, a free HMM that starts in state 0, a free HMM constructed
\* from an all-zero Pi, a non-reversible HMM with zeros in its matrix
SynthesisHMMs ==
    { HMMInit(PyArray(Mat(<< <<8, 2>>, <<5, 5>> >>)), OutputModelFor(2), 1, PyNone, TRUE, TRUE).self,
      HMMInit(PyArray(Mat(<< <<8, 2>>, <<5, 5>> >>)), OutputModelFor(2), 2,
              PyArray(Tenths(<<10, 0>>)), FALSE, TRUE).self,
      HMMInit(PyArray(Mat(<< <<5, 5>>, <<5, 5>> >>)), OutputModelFor(2), 1,
              PyArray(Tenths(<<0, 0>>)), FALSE, FALSE).self,
      HMMInit(PyArray(Mat(<< <<0, 8, 2>>, <<2, 0, 8>>, <<8, 2, 0>> >>)), OutputModelFor(3), 1,
              PyNone, TRUE, FALSE).self }

(***************************************************************************)
(* State.                                                                  *)
(***************************************************************************)
VARIABLES
    hmm,      \* the HMM instance, NoHMM as long as none has been constructed
    call,     \* the latest operation and its arguments
    result    \* what the latest operation returned or raised, and its warnings

vars == << hmm, call, result >>

Outcome(r, w) == [raised |-> r.raised, value |-> r.value, warnings |-> w]

Init ==
    /\ hmm = NoHMM
    /\ call = [op |-> "none"]
    /\ result = Outcome(Return(<<>>), 0)

\* model = HMM(Tij, output_model, lag, Pi, stationary, reversible)
Construct(T, lag, Pi, stationary, reversible) ==
    LET r == HMMInit(PyArray(T), OutputModelFor(Len(T)), lag, Pi, stationary, reversible)
    IN /\ ~hmm.exists
       /\ hmm' = r.self
       /\ call' = [op |-> "HMM", Tij |-> T, lag |-> lag, Pi |-> Pi,
                   stationary |-> stationary, reversible |-> reversible]
       /\ result' = Outcome([raised |-> r.raised, value |-> <<>>], DivisionWarnings(PyArray(T), Pi))

\* model = initial_model_discrete(observations, nstates, lag, reversible)
InitialModelDiscrete(nstates, lag, reversible, estimated, fm) ==
    LET r == initial_model_discrete(nstates, lag, reversible, estimated, fm)
    IN /\ ~hmm.exists
       /\ hmm' = r.self
       /\ call' = [op |-> "initial_model_discrete", nstates |-> nstates, lag |-> lag,
                   reversible |-> reversible, estimated |-> estimated, fm |-> fm,
                   request |-> r.request]
       /\ result' = Outcome([raised |-> r.raised, value |-> <<>>], r.warnings)

\* model.hidden_state_trajectories = S, for a list S of at most maxtraj
\* trajectories of at most maxlen hidden states
AssignTrajectories(maxlen, maxtraj) ==
    /\ hmm.exists
    /\ \E S \in TrajLists(hmm.nstates, maxlen, maxtraj) :
          hmm' = [hmm EXCEPT !.hidden_state_trajectories = [assigned |-> TRUE, list |-> S]]
    /\ call' = [op |-> "assign"]
    /\ result' = Outcome(Return(<<>>), 0)

\* model.count_matrix()
CountMatrix ==
    /\ hmm.exists
    /\ call' = [op |-> "count_matrix"]
    /\ result' = Outcome(count_matrix(hmm), 0)
    /\ UNCHANGED hmm

\* model.initial_distribution
InitialDistribution ==
    /\ hmm.exists
    /\ call' = [op |-> "initial_distribution"]
    /\ result' = Outcome(initial_distribution(hmm), 0)
    /\ UNCHANGED hmm

\* model.stationary_distribution
StationaryDistribution ==
    /\ hmm.exists
    /\ call' = [op |-> "stationary_distribution"]
    /\ result' = Outcome(stationary_distribution_property(hmm), 0)
    /\ UNCHANGED hmm

\* model.is_reversible, model.nstates, ..., model.eigenvectors_right()
PropertyQuery(name) ==
    /\ hmm.exists
    /\ call' = [op |-> "property", name |-> name]
    /\ result' = Outcome(ReadProperty(hmm, name), 0)
    /\ UNCHANGED hmm

\* model.timescales()
Timescales ==
    /\ hmm.exists
    /\ call' = [op |-> "timescales"]
    /\ result' = Outcome(timescales(hmm), 0)
    /\ UNCHANGED hmm

\* model.collect_observations_in_state(observations, state_index)
CollectObservationsInState(observations, state_index) ==
    /\ hmm.exists
    /\ call' = [op |-> "collect_observations_in_state",
                observations |-> observations, state_index |-> state_index]
    /\ result' = Outcome(collect_observations_in_state(hmm, observations, state_index), 0)
    /\ UNCHANGED hmm

\* model.generate_synthetic_state_trajectory(length, initial_Pi)
GenerateSyntheticStateTrajectory(length, initial_Pi) ==
    /\ hmm.exists
    /\ call' = [op |-> "generate_synthetic_state_trajectory",
                length |-> length, initial_Pi |-> initial_Pi]
    /\ \E r \in generate_synthetic_state_trajectory(hmm, length, initial_Pi) :
          result' = Outcome(r, 0)
    /\ UNCHANGED hmm

\* model.generate_synthetic_observation(state)
GenerateSyntheticObservation(state) ==
    /\ hmm.exists
    /\ call' = [op |-> "generate_synthetic_observation", state |-> state]
    /\ \E r \in generate_synthetic_observation(hmm, state) : result' = Outcome(r, 0)
    /\ UNCHANGED hmm

\* model.generate_synthetic_observation_trajectory(length, initial_Pi)
GenerateSyntheticObservationTrajectory(length, initial_Pi) ==
    /\ hmm.exists
    /\ call' = [op |-> "generate_synthetic_observation_trajectory",
                length |-> length, initial_Pi |-> initial_Pi]
    /\ \E r \in generate_synthetic_observation_trajectory(hmm, length, initial_Pi) :
          result' = Outcome(r, 0)
    /\ UNCHANGED hmm

\* generate_synthetic_observation_trajectories keeping the state trajectories
\* it made as the hidden state trajectories of the model
GenerateSyntheticObservationTrajectories_StoresS(ntrajectories, length, initial_Pi) ==
    /\ hmm.exists
    /\ call' = [op |-> "generate_synthetic_observation_trajectories",
                ntrajectories |-> ntrajectories, length |-> length, initial_Pi |-> initial_Pi]
    /\ \E r \in generate_synthetic_observation_trajectories(hmm, ntrajectories, length, initial_Pi) :
          /\ result' = Outcome(r, 0)
          /\ hmm' = IF r.raised = ""
                    THEN [hmm EXCEPT !.hidden_state_trajectories = [assigned |-> TRUE, list |-> r.value.S]]
                    ELSE hmm

\* model.generate_synthetic_observation_trajectories(ntrajectories, length, initial_Pi)
GenerateSyntheticObservationTrajectories(ntrajectories, length, initial_Pi) ==
    /\ hmm.exists
    /\ call' = [op |-> "generate_synthetic_observation_trajectories",
                ntrajectories |-> ntrajectories, length |-> length, initial_Pi |-> initial_Pi]
    /\ \E r \in generate_synthetic_observation_trajectories(hmm, ntrajectories, length, initial_Pi) :
          result' = Outcome(r, 0)
    /\ UNCHANGED hmm

Next ==
    \/ \E T \in Matrices, lag \in 1..MaxLag, stationary \in BOOLEAN, reversible \in BOOLEAN :
         \E Pi \in PiArguments(Len(T)) : Construct(T, lag, Pi, stationary, reversible)
    \/ \E lag \in 1..MaxLag, reversible \in BOOLEAN, estimated \in BOOLEAN, fm \in FineModels :
         InitialModelDiscrete(2, lag, reversible, estimated, fm)
    \/ AssignTrajectories(MaxTrajLen, MaxTraj)
    \/ CountMatrix
    \/ InitialDistribution
    \/ StationaryDistribution

Spec == Init /\ [][Next]_vars

(***************************************************************************)
(* Count matrices of the HMM of the class documentation's example, with    *)
(* longer lists of longer trajectories.                                    *)
(***************************************************************************)
InitCount ==
    /\ hmm = HMMInit(PyArray(Mat(<< <<8, 2>>, <<5, 5>> >>)), OutputModelFor(2),
                      1, PyNone, TRUE, TRUE).self
    /\ call = [op |-> "none"]
    /\ result = Outcome(Return(<<>>), 0)

NextCount ==
    \/ AssignTrajectories(CountMaxTrajLen, CountMaxTraj)
    \/ CountMatrix

SpecCount == InitCount /\ [][NextCount]_vars

(***************************************************************************)
(* The operations of a constructed HMM.                                    *)
(***************************************************************************)
InitGen ==
    /\ hmm \in SynthesisHMMs
    /\ call = [op |-> "none"]
    /\ result = Outcome(Return(<<>>), 0)

NextGen ==
    \/ AssignTrajectories(MaxTrajLen, MaxTraj)
    \/ CountMatrix
    \/ InitialDistribution
    \/ StationaryDistribution
    \/ \E name \in PropertyNames : PropertyQuery(name)
    \/ Timescales
    \/ \E observations \in TrajLists(2, MaxTrajLen, MaxTraj), state_index \in 0..(hmm.nstates - 1) :
         CollectObservationsInState(observations, state_index)
    \/ \E length \in -1..MaxGenLen, initial_Pi \in InitialPiOverrides(hmm.nstates) :
         GenerateSyntheticStateTrajectory(length, initial_Pi)
    \/ \E state \in 0..(hmm.nstates - 1) : GenerateSyntheticObservation(state)
    \/ \E length \in -1..MaxObsLen, initial_Pi \in InitialPiOverrides(hmm.nstates) :
         GenerateSyntheticObservationTrajectory(length, initial_Pi)
    \/ \E ntrajectories \in 0..MaxNTraj, length \in -1..MaxObsLen,
          initial_Pi \in InitialPiOverrides(hmm.nstates) :
         GenerateSyntheticObservationTrajectories(ntrajectories, length, initial_Pi)

SpecGen == InitGen /\ [][NextGen]_vars

(***************************************************************************)
(* Vocabulary of the properties, stated without the operators of the       *)
(* model of the code.                                                      *)
(***************************************************************************)
Max(a, b) == IF a >= b THEN a ELSE b

RECURSIVE SumNat(_)
SumNat(v) == IF v = <<>> THEN 0 ELSE v[1] + SumNat(Tail(v))

\* the sum of all entries of a matrix of counts
SumEntries(C) == SumNat([i \in 1..Len(C) |-> SumNat(C[i])])

\* the number of consecutive pairs of a list of trajectories
RECURSIVE TotalSteps(_)
TotalSteps(trajs) ==
    IF trajs = <<>> THEN 0 ELSE Max(Len(Head(trajs)) - 1, 0) + TotalSteps(Tail(trajs))

\* the positions <<k, t>> where trajectory k goes from state i to state j
Occurrences(trajs, i, j) ==
    UNION { { <<k, t>> : t \in { u \in 1..(Len(trajs[k]) - 1) :
                                    trajs[k][u] = i /\ trajs[k][u + 1] = j } } :
            k \in 1..Len(trajs) }

Trajectories == hmm.hidden_state_trajectories

\* p has finite non-negative entries that sum to 1
IsDistribution(p) ==
    /\ \A i \in 1..Len(p) : p[i].d > 0 /\ p[i].n >= 0
    /\ SumSeq(p) = One

\* T has non-negative entries and rows that sum to 1
RowStochastic(T) ==
    \A i \in 1..Len(T) : SumSeq(T[i]) = One /\ \A j \in 1..Len(T[i]) : T[i][j].d > 0 /\ T[i][j].n >= 0

\* p is a distribution with p T = p
IsStationaryFor(p, T) == IsDistribution(p) /\ VecMat(p, T) = p

\* p_i T_ij = p_j T_ji for all i, j
DetailedBalance(p, T) ==
    \A i \in 1..Len(T) : \A j \in 1..Len(T) : FMul(p[i], T[i][j]) = FMul(p[j], T[j][i])

\* p is v divided by the sum of v (0/0 being nan)
IsRenormalized(p, v) ==
    /\ Len(p) = Len(v)
    /\ \A i \in 1..Len(v) :
         IF SumSeq(v) = Zero THEN p[i] = NaN ELSE FMul(p[i], SumSeq(v)) = v[i]

\* the supplied Pi, renormalized, is the stationary distribution of T
SuppliedPiMatches(Pi, T) ==
    SumSeq(Pi.v) # Zero /\ IsStationaryFor([i \in 1..Len(Pi.v) |-> FDiv(Pi.v[i], SumSeq(Pi.v))], T)

Constructed == call.op = "HMM" /\ hmm.exists
Counted == call.op = "count_matrix"

(***************************************************************************)
(* C1 -- initial_model_discrete                                            *)
(***************************************************************************)
\* C1: whenever the fine-model estimation and the metastable decomposition
\* succeed, initial_model_discrete returns an HMM whose transition matrix is
\* the coarse matrix A, whose output model is the discrete output model of B
\* and whose initial distribution is the stationary one: the constructor
\* call binds (A, output model) to (Tij, output_model) and does not fail.
C1_InitializerReturnsHMM ==
    (call.op = "initial_model_discrete" /\ call.estimated /\ ActiveSetFits(call.fm)) =>
        /\ result.raised = ""
        /\ hmm.exists
        /\ hmm.Tij = CoarseTransitionMatrix(call.fm)
        /\ hmm.output_model = DiscreteOutputModel(EmissionMatrix(call.nstates, call.fm))
        /\ hmm.stationary
        /\ IsStationaryFor(hmm.Pi, hmm.Tij)

(***************************************************************************)
(* C2 - C4 -- count_matrix                                                 *)
(***************************************************************************)
\* C2: with trajectories assigned, count_matrix returns an nstates x nstates
\* matrix C where C[i,j] is the number of positions t of the trajectories S
\* with S[t] = i and S[t+1] = j, so that its entries sum to the sum of
\* max(len(S) - 1, 0) over the trajectories.
C2_CountMatrixTallies ==
    (Counted /\ Trajectories.assigned) =>
        /\ result.raised = ""
        /\ Len(result.value) = hmm.nstates
        /\ \A i \in 1..hmm.nstates :
             /\ Len(result.value[i]) = hmm.nstates
             /\ \A j \in 1..hmm.nstates :
                  result.value[i][j] = Cardinality(Occurrences(Trajectories.list, i - 1, j - 1))
        /\ SumEntries(result.value) = TotalSteps(Trajectories.list)

\* two trajectories, one without any transition, and a transition seen twice
C2_Witness ==
    /\ Counted /\ Trajectories.assigned /\ result.raised = ""
    /\ Len(Trajectories.list) = 2
    /\ \E k \in 1..2 : Len(Trajectories.list[k]) <= 1
    /\ \E i \in 1..hmm.nstates, j \in 1..hmm.nstates : result.value[i][j] = 2

C3Trajectories == << <<0, 1, 0>>, <<1, 1, 0>> >>

\* C3 as stated: count_matrix of a 2-state HMM with the trajectories
\* [[0,1,0],[1,1,0]] is [[1,1],[1,1]].
C3_Original ==
    (Counted /\ hmm.nstates = 2 /\ Trajectories.assigned /\ Trajectories.list = C3Trajectories) =>
        result.value = << <<1, 1>>, <<1, 1>> >>

\* C3 amended: count_matrix of a 2-state HMM with the trajectories
\* [[0,1,0],[1,1,0]] is [[0,1],[2,1]] (0->1 once, 1->0 twice, 1->1 once).
C3_CountMatrixExample ==
    (Counted /\ hmm.nstates = 2 /\ Trajectories.assigned /\ Trajectories.list = C3Trajectories) =>
        result.raised = "" /\ result.value = << <<0, 1>>, <<2, 1>> >>

C3_Witness ==
    Counted /\ hmm.nstates = 2 /\ Trajectories.assigned /\ Trajectories.list = C3Trajectories

\* C4: count_matrix raises exactly when hidden_state_trajectories is None,
\* which is its value in every freshly constructed HMM; an assigned empty
\* list is not None: count_matrix then returns the all-zero matrix.
C4_CountMatrixNeedsTrajectories ==
    /\ Constructed => ~Trajectories.assigned
    /\ Counted => (result.raised # "" <=> ~Trajectories.assigned)
    /\ (Counted /\ Trajectories.assigned /\ Trajectories.list = <<>>) =>
          /\ result.raised = ""
          /\ result.value = [i \in 1..hmm.nstates |-> [j \in 1..hmm.nstates |-> 0]]

C4_Witness ==
    Counted /\ Trajectories.assigned /\ Trajectories.list = <<>> /\ result.raised = ""

(***************************************************************************)
(* C5 -- stationary_distribution                                           *)
(***************************************************************************)
\* C5: the stationary_distribution query of a stationary HMM returns what
\* initial_distribution returns; on an HMM constructed with stationary=False
\* it raises, also when the initial distribution of that HMM is the
\* stationary distribution of its transition matrix.
C5_StationaryDistributionQuery ==
    call.op = "stationary_distribution" =>
        IF hmm.stationary
        THEN result.raised = "" /\ result.value = initial_distribution(hmm).value
        ELSE result.raised # ""

C5_Witness ==
    /\ call.op = "stationary_distribution"
    /\ ~hmm.stationary
    /\ IsStationaryFor(hmm.Pi, hmm.Tij)
    /\ result.raised # ""

(***************************************************************************)
(* C6 - C10 -- validation in HMM.__init__                                  *)
(***************************************************************************)
StationaryMessage ==
    "Stationary HMM requested, but given distribution is not the stationary distribution of the given transition matrix."
ReversibleMessage ==
    "Reversible HMM requested, but given transition matrix is not reversible."

\* a constructor call that passes the checks of the matrix and of Pi
CalledWithValidMatrixAndPi ==
    /\ call.op = "HMM"
    /\ RowStochastic(call.Tij)
    /\ call.Pi.kind # "None" => \A i \in 1..Len(call.Pi.v) : call.Pi.v[i].n >= 0

\* C6: constructing a stationary HMM with a supplied initial distribution
\* fails unless the supplied distribution, renormalized, is the stationary
\* distribution of the matrix; T = [[0.8,0.2],[0.5,0.5]] with [0.5,0.5]
\* fails; when it matches (and the reversibility check passes) construction
\* succeeds and stores the supplied distribution renormalized.
C6_StationaryNeedsConsistentPi ==
    (CalledWithValidMatrixAndPi /\ call.stationary /\ call.Pi.kind # "None") =>
        /\ ~SuppliedPiMatches(call.Pi, call.Tij) =>
              ~hmm.exists /\ result.raised = StationaryMessage
        /\ (call.Tij = Mat(<< <<8, 2>>, <<5, 5>> >>) /\ call.Pi.v = Tenths(<<5, 5>>)) =>
              ~hmm.exists /\ result.raised # ""
        /\ SuppliedPiMatches(call.Pi, call.Tij) =>
              /\ result.raised # StationaryMessage
              /\ result.raised = "" <=>
                    (call.reversible => DetailedBalance(stationary_distribution(call.Tij), call.Tij))
              /\ result.raised = "" =>
                    hmm.exists /\ IsRenormalized(hmm.Pi, call.Pi.v) /\ IsStationaryFor(hmm.Pi, hmm.Tij)

\* a stationary HMM constructed from a matching Pi that was not normalized
C6_Witness ==
    /\ Constructed /\ call.stationary /\ call.Pi.kind # "None"
    /\ SuppliedPiMatches(call.Pi, call.Tij)
    /\ hmm.Pi # call.Pi.v

C7_Witness ==
    Constructed /\ ~call.stationary /\ call.Pi.kind = "None" /\ IsStationaryFor(hmm.Pi, hmm.Tij)

C8_InitialDistributionNormalized ==
    /\ (call.op = "HMM" /\ call.Pi.kind # "None"
           /\ \E i \in 1..Len(call.Pi.v) : call.Pi.v[i].n < 0) => ~hmm.exists /\ result.raised # ""
    /\ (Constructed /\ call.Pi.kind # "None") => IsRenormalized(hmm.Pi, call.Pi.v)
    /\ hmm.exists => IsDistribution(hmm.Pi)

\* C9: construction fails when the matrix is not row-stochastic, and every
\* failed validation is raised by the constructor: no HMM exists whose
\* matrix is not row-stochastic, whose initial distribution has a negative
\* entry, that is stationary with another initial distribution than the
\* stationary one, or that is reversible without detailed balance.
C9_ValidatedAtConstruction ==
    /\ (call.op = "HMM" /\ ~RowStochastic(call.Tij)) => ~hmm.exists /\ result.raised # ""
    /\ call.op = "HMM" => (result.raised # "" <=> ~hmm.exists)
    /\ hmm.exists =>
          /\ RowStochastic(hmm.Tij)
          /\ \A i \in 1..hmm.nstates : ~(hmm.Pi[i].n < 0)
          /\ hmm.stationary => IsStationaryFor(hmm.Pi, hmm.Tij)
          /\ hmm.reversible => DetailedBalance(stationary_distribution(hmm.Tij), hmm.Tij)

\* a constructor call rejected for its matrix alone
C9_Witness ==
    /\ call.op = "HMM" /\ ~RowStochastic(call.Tij)
    /\ call.Pi.kind = "None" /\ ~call.reversible /\ ~call.stationary
    /\ ~hmm.exists /\ result.raised # ""

\* C10: with reversible=True construction fails when the matrix does not
\* satisfy detailed balance with respect to its stationary distribution;
\* with reversible=False no such check is made and a row-stochastic matrix
\* without detailed balance is accepted.
C10_ReversibleNeedsDetailedBalance ==
    (CalledWithValidMatrixAndPi /\ ~DetailedBalance(stationary_distribution(call.Tij), call.Tij)) =>
        /\ call.reversible => ~hmm.exists /\ result.raised # ""
        /\ (call.reversible /\ (call.stationary /\ call.Pi.kind # "None" => SuppliedPiMatches(call.Pi, call.Tij)))
              => result.raised = ReversibleMessage
        /\ (~call.reversible /\ (call.stationary /\ call.Pi.kind # "None" => SuppliedPiMatches(call.Pi, call.Tij)))
              => hmm.exists /\ hmm.Tij = call.Tij /\ ~hmm.reversible

\* a constructed non-reversible HMM whose matrix has no detailed balance
C10_Witness ==
    /\ Constructed /\ ~hmm.reversible
    /\ ~DetailedBalance(stationary_distribution(hmm.Tij), hmm.Tij)

\* a constructor call rejected for the missing detailed balance
C10_WitnessRejected ==
    /\ call.op = "HMM" /\ call.reversible /\ result.raised = ReversibleMessage

(***************************************************************************)
(* C11 - C12 -- trajectory synthesis                                       *)
(***************************************************************************)
\* the distribution the latest synthesis call draws its first state from
CalledFirstDistribution ==
    IF call.initial_Pi.kind # "None" THEN call.initial_Pi.v ELSE hmm.Pi

\* C11: for length L >= 1, generate_synthetic_state_trajectory returns L
\* states of 0..nstates-1 made by one draw from initial_Pi if given, else
\* from the initial distribution of the model, and L-1 draws, the t-th from
\* the row of the state at t-1 of the transition matrix: the first state has
\* positive probability in the distribution used, every consecutive pair
\* (s, s') has T[s,s'] > 0, and for L = 1 no row of the matrix is drawn from.
\* (The call returns whenever the distribution used is a distribution.)
C11_StateTrajectoryIsAChain ==
    (call.op = "generate_synthetic_state_trajectory" /\ call.length >= 1) =>
        /\ IsDistribution(CalledFirstDistribution) => result.raised = ""
        /\ result.raised = "" =>
              /\ Len(result.value.states) = call.length
              /\ \A t \in 1..call.length : result.value.states[t] \in 0..(hmm.nstates - 1)
              /\ Len(result.value.draws) = call.length
              /\ result.value.draws[1].source =
                    (IF call.initial_Pi.kind # "None" THEN "initial_Pi" ELSE "_Pi")
              /\ result.value.draws[1].p = CalledFirstDistribution
              /\ CalledFirstDistribution[result.value.states[1] + 1].n > 0
              /\ \A t \in 2..call.length :
                    /\ result.value.draws[t].source = "Tij"
                    /\ result.value.draws[t].p = hmm.Tij[result.value.states[t - 1] + 1]
                    /\ hmm.Tij[result.value.states[t - 1] + 1][result.value.states[t] + 1].n > 0
              /\ Cardinality({ t \in 1..call.length : result.value.draws[t].source = "Tij" })
                    = call.length - 1

\* a trajectory of two states of the HMM with zeros in its matrix, its first
\* state drawn from an initial_Pi with zero entries
C11_Witness ==
    /\ call.op = "generate_synthetic_state_trajectory"
    /\ call.length = 2 /\ call.initial_Pi.kind # "None" /\ result.raised = ""
    /\ \E i \in 1..hmm.nstates : hmm.Tij[i][i] = Zero
    /\ \E i \in 1..hmm.nstates : call.initial_Pi.v[i] = Zero

\* the latest call is a synthesis of at least one trajectory
SynthesisCalled(c) ==
    \/ c.op \in { "generate_synthetic_state_trajectory", "generate_synthetic_observation_trajectory" }
    \/ c.op = "generate_synthetic_observation_trajectories" /\ c.ntrajectories >= 1

InitializerEstimated == call.op = "initial_model_discrete" /\ call.estimated

\* C13: the emission matrix B the initializer builds has one row per hidden
\* state and one column per symbol of the full symbol space, no entry of it
\* is zero, and every row sums to 1.
C13_EmissionMatrixCoversSymbols ==
    InitializerEstimated =>
        /\ ActiveSetFits(call.fm)
        /\ Len(EmissionMatrix(call.nstates, call.fm)) = call.nstates
        /\ \A i \in 1..call.nstates :
              /\ Len(EmissionMatrix(call.nstates, call.fm)[i]) = call.fm.nstates_full
              /\ \A c \in 1..Len(EmissionMatrix(call.nstates, call.fm)[i]) :
                    /\ IsFinite(EmissionMatrix(call.nstates, call.fm)[i][c])
                    /\ EmissionMatrix(call.nstates, call.fm)[i][c].n > 0
              /\ NpSum(EmissionMatrix(call.nstates, call.fm)[i]) = One

\* the matrix A of the latest initializer call, handed to HMM(...) in line 87
PassedA == CoarseTransitionMatrix(call.fm)

\* C14: the coarse transition matrix A that the initializer hands to the HMM
\* constructor is row-stochastic for every fine model: every weighted entry
\* below the floor is raised to the floor, so every entry of X is at least
\* the (positive) floor, every row sum of X is positive, and every entry of
\* A is positive and every row of A sums to 1 -- also when the raw
\* projection has negative entries.
C14_CoarseMatrixRowStochastic ==
    (InitializerEstimated /\ ActiveSetFits(call.fm)) =>
        /\ Eps(call.fm).n > 0
        /\ \A i \in 1..call.nstates :
              /\ \A j \in 1..call.nstates :
                    /\ FGe(FlooredX(call.fm)[i][j], Eps(call.fm))
                    /\ FGe(FlooredX(call.fm)[i][j], WeightedProjection(call.fm)[i][j])
                    /\ FlooredX(call.fm)[i][j] \in { Eps(call.fm), WeightedProjection(call.fm)[i][j] }
              /\ NpSum(FlooredX(call.fm)[i]).n > 0
        /\ Len(PassedA) = call.nstates
        /\ \A i \in 1..call.nstates :
              /\ Len(PassedA[i]) = call.nstates
              /\ \A j \in 1..call.nstates : IsFinite(PassedA[i][j]) /\ PassedA[i][j].n > 0
              /\ NpSum(PassedA[i]) = One

\* an initializer call whose raw projection has a negative entry
C14_Witness ==
    /\ InitializerEstimated /\ ActiveSetFits(call.fm)
    /\ \E i, j \in 1..call.nstates : CoarseProjection(call.fm)[i][j].n < 0

\* the latest call of the initializer warned once exactly when reversible was
\* false, asked pyemma for a reversible estimation, and ended as the call
\* with reversible = true on the same inputs ends
InitializerOverridesReversible ==
    call.op = "initial_model_discrete" =>
        /\ result.warnings = (IF call.reversible THEN 0 ELSE 1)
        /\ call.request.reversible = TRUE
        /\ call.request = initial_model_discrete(call.nstates, call.lag, TRUE, call.estimated, call.fm).request
        /\ hmm = initial_model_discrete(call.nstates, call.lag, TRUE, call.estimated, call.fm).self
        /\ result.raised = initial_model_discrete(call.nstates, call.lag, TRUE, call.estimated, call.fm).raised

\* C15: initial_model_discrete with reversible = false emits exactly one
\* warning, overrides the flag and proceeds exactly as with reversible = true;
\* with reversible = true it emits none; and no other operation -- the HMM
\* constructor and the operations of an HMM -- emits any warning.
C15_OnlyTheOverrideWarns ==
    /\ InitializerOverridesReversible
    /\ call.op # "initial_model_discrete" => result.warnings = 0

(***************************************************************************)
(* C16 -- the eigendecomposition of a constructed HMM                      *)
(***************************************************************************)
\* an eigenvector has real components only: its eigenvalue is real, or its
\* real part has been taken
IsRealVector(x) == ~IsComplex(x.eigenvalue) \/ x.real_part

\* C16: every constructed HMM stores its eigendecomposition -- made with the
\* reversible normalization for a reversible HMM, with the standard one
\* otherwise -- and the stored eigenvalues, left and right eigenvectors are
\* real-valued, truncated to their real parts where the decomposition is
\* complex.
C16_DecompositionIsReal ==
    Constructed =>
        /\ Len(hmm.eigenvalues) = hmm.nstates /\ Len(hmm.R) = hmm.nstates /\ Len(hmm.L) = hmm.nstates
        /\ \A k \in 1..hmm.nstates :
              /\ hmm.R[k].norm = (IF hmm.reversible THEN "reversible" ELSE "standard")
              /\ hmm.L[k].norm = (IF hmm.reversible THEN "reversible" ELSE "standard")
              /\ ~IsComplex(hmm.eigenvalues[k])
              /\ IsRealVector(hmm.R[k])
              /\ IsRealVector(hmm.L[k])

(***************************************************************************)
(* C17 -- the operations of an HMM leave it as it is                       *)
(***************************************************************************)
\* the operations of a constructed HMM
HMMOperations ==
    { "property", "initial_distribution", "stationary_distribution", "timescales", "count_matrix",
      "collect_observations_in_state", "generate_synthetic_state_trajectory",
      "generate_synthetic_observation", "generate_synthetic_observation_trajectory",
      "generate_synthetic_observation_trajectories" }

\* C17: a call of an operation of a constructed HMM -- a property query,
\* timescales, count_matrix, collect_observations_in_state, a
\* generate_synthetic_* operation -- whether it returns or raises, changes
\* neither the transition matrix, the initial distribution, the flags, the
\* lag, nstates, the eigenvalues and eigenvectors, the output model, nor
\* hidden_state_trajectories; an assignment of hidden_state_trajectories
\* changes that field and nothing else.
C17_OperationsKeepTheModel ==
    [][/\ call'.op \in HMMOperations =>
             /\ hmm'.Tij = hmm.Tij /\ hmm'.Pi = hmm.Pi
             /\ hmm'.stationary = hmm.stationary /\ hmm'.reversible = hmm.reversible
             /\ hmm'.lag = hmm.lag /\ hmm'.nstates = hmm.nstates
             /\ hmm'.eigenvalues = hmm.eigenvalues /\ hmm'.R = hmm.R /\ hmm'.L = hmm.L
             /\ hmm'.output_model = hmm.output_model
             /\ hmm'.hidden_state_trajectories = hmm.hidden_state_trajectories
       /\ hmm'.hidden_state_trajectories # hmm.hidden_state_trajectories =>
             /\ call'.op = "assign"
             /\ hmm' = [hmm EXCEPT !.hidden_state_trajectories = hmm'.hidden_state_trajectories]
      ]_vars

\* state trajectories were synthesized by a model that has hidden state
\* trajectories assigned, and a call raised on such a model
C17_Witness ==
    /\ call.op = "generate_synthetic_observation_trajectories"
    /\ result.raised = "" /\ Len(result.value.S) >= 1
    /\ hmm.hidden_state_trajectories.assigned
    /\ hmm.hidden_state_trajectories.list # result.value.S

C17_WitnessRaised ==
    /\ call.op \in HMMOperations /\ result.raised # ""
    /\ hmm.hidden_state_trajectories.assigned
    /\ hmm.hidden_state_trajectories.list # <<>>

(***************************************************************************)
(* C18 -- count_matrix is a sum over the trajectories                      *)
(***************************************************************************)
\* what count_matrix returns when the list trajs is assigned to the model
CountOf(trajs) ==
    count_matrix([hmm EXCEPT !.hidden_state_trajectories = [assigned |-> TRUE, list |-> trajs]]).value

MatrixSum(A, B) == [i \in 1..Len(A) |-> [j \in 1..Len(A[i]) |-> A[i][j] + B[i][j]]]

Reorderings(n) == { p \in [1..n -> 1..n] : \A i, j \in 1..n : p[i] = p[j] => i = j }

\* C18: count_matrix of a list of trajectories is the entrywise sum of the
\* count matrices of any two lists X, Y that the list is the concatenation
\* of, and it is the same for every order of the trajectories of the list:
\* no transition is counted from the end of one trajectory to the start of
\* the next.
C18_CountMatrixIsASum ==
    (Counted /\ Trajectories.assigned) =>
        /\ \A k \in 0..Len(Trajectories.list) :
              result.value = MatrixSum(CountOf(SubSeq(Trajectories.list, 1, k)),
                                       CountOf(SubSeq(Trajectories.list, k + 1, Len(Trajectories.list))))
        /\ \A p \in Reorderings(Len(Trajectories.list)) :
              result.value = CountOf([k \in 1..Len(Trajectories.list) |-> Trajectories.list[p[k]]])

\* two trajectories with transitions, the first ending in a state i and the
\* second starting in a state j such that no trajectory goes from i to j
C18_Witness ==
    /\ Counted /\ Trajectories.assigned /\ result.raised = ""
    /\ Len(Trajectories.list) = 2
    /\ Len(Trajectories.list[1]) >= 2 /\ Len(Trajectories.list[2]) >= 2
    /\ Trajectories.list[1] # Trajectories.list[2]
    /\ result.value[Trajectories.list[1][Len(Trajectories.list[1])] + 1][Trajectories.list[2][1] + 1] = 0
=============================================================================
